---- MODULE Spec2Model ----
(***************************************************************************)
(* Model of index.js: the Uniswap V3 liquidity-concentration monitor.      *)
(*                                                                         *)
(* The process reads a roster of addresses, fetches and filters each       *)
(* address's positions once, resolves the target pool once, and then polls *)
(* once a minute: every poll pushes one percentage per roster entry into   *)
(* that address's rolling window and appends one row to liquidity_log.csv. *)
(*                                                                         *)
(* Numbers.  JavaScript doubles are modelled by exact rationals            *)
(* [n |-> numerator, d |-> denominator] in lowest terms; toFixed(k) is     *)
(* modelled by rounding to an integer count of 10^-k units.  A uint160     *)
(* sqrtPriceX96 is carried as a multiple of 2^95 (see CurrentPrice).       *)
(***************************************************************************)
EXTENDS Integers, Sequences, FiniteSets, TLC

(***************************************************************************)
(* Bounds of the model.                                                    *)
(***************************************************************************)
MaxCycles == 3
MaxInFlight == 2
MaxRestarts == 1
MaxCyclesLong == 75
MaxRawLen == 3

(***************************************************************************)
(* Program constants (index.js lines 42-51).                               *)
(***************************************************************************)
USDC_ADDRESS == "0xA0b8"
OTHER_TOKEN == "0x77E0"
FEE == 10000
ZERO_ADDRESS == "0x0000"
WINDOW_SIZE == 72

(***************************************************************************)
(* The world outside the process: token spellings the position manager can *)
(* return, the pool the factory can hold, pool snapshots, rosters.         *)
(***************************************************************************)
POOL_ADDRESS == "0xP001"
WETH == "0xC02a"

\* String.prototype.toLowerCase on the token spellings of the model.
ToLowerCase(s) ==
  CASE s = "0xA0b8" -> "0xa0b8"
    [] s = "0xA0B8" -> "0xa0b8"
    [] s = "0x77E0" -> "0x77e0"
    [] s = "0xC02a" -> "0xc02a"
    [] OTHER -> s

RawDirect == [token0 |-> "0xA0B8", token1 |-> "0x77e0", fee |-> 10000,
              tickLower |-> -100, tickUpper |-> 100, liquidity |-> 500]
RawReversed == [token0 |-> "0x77E0", token1 |-> "0xa0b8", fee |-> 10000,
                tickLower |-> 100, tickUpper |-> 200, liquidity |-> 250]
RawWrongFee == [token0 |-> "0xA0b8", token1 |-> "0x77E0", fee |-> 3000,
                tickLower |-> -100, tickUpper |-> 100, liquidity |-> 500]
RawWrongPair == [token0 |-> "0xA0b8", token1 |-> WETH, fee |-> 10000,
                 tickLower |-> -100, tickUpper |-> 100, liquidity |-> 500]

RawSameToken == [token0 |-> "0xa0b8", token1 |-> "0xA0b8", fee |-> 10000,
                 tickLower |-> -100, tickUpper |-> 100, liquidity |-> 500]

Addrs == {"a1", "a2"}

\* What positionManager can hold: owner -> positions in token-index order.
ChainWorlds ==
  { [a \in Addrs |-> IF a = "a1" THEN <<>> ELSE <<RawWrongFee, RawWrongPair>>],
    [a \in Addrs |-> IF a = "a1" THEN <<RawDirect>>
                     ELSE <<RawWrongFee, RawDirect, RawWrongPair, RawReversed>>] }

\* addresses.txt after split/trim/filter: any list of lines, repeats allowed.
Rosters == { <<>>, <<"a1", "a2">>, <<"a1", "a1">> }

\* Tick 0 lies inside [-100, 100) and below [100, 200); tick 100 is the upper
\* bound of the first and the lower bound of the second.
Ticks == {0, 100}
Liquidities == {0, 1000}

\* sqrtPriceX96 of the pool at a tick, in units of 2^95.
SqrtUnitsAt(tick) == IF tick = 0 THEN 2 ELSE 3

\* What pool.slot0() can return.
Slot0s == { [tick |-> t, sqrtPriceX96 |-> SqrtUnitsAt(t)] : t \in Ticks }

(***************************************************************************)
(* Rational arithmetic standing for double arithmetic.                     *)
(***************************************************************************)
RECURSIVE Gcd(_, _)
Gcd(a, b) == IF b = 0 THEN a ELSE Gcd(b, a % b)

Rat(n, d) == LET g == Gcd(n, d) IN [n |-> n \div g, d |-> d \div g]
Zero == [n |-> 0, d |-> 1]
RatAdd(x, y) == Rat(x.n * y.d + y.n * x.d, x.d * y.d)
RatDivInt(x, k) == Rat(x.n, x.d * k)

RECURSIVE Pow10(_)
Pow10(k) == IF k = 0 THEN 1 ELSE 10 * Pow10(k - 1)

\* Number.prototype.toFixed(k): nearest multiple of 10^-k, as a count of them.
ToFixed(x, k) == (2 * x.n * Pow10(k) + x.d) \div (2 * x.d)

(***************************************************************************)
(* Pure helpers of index.js.                                               *)
(***************************************************************************)

\* Mutant: the token addresses are compared as spelled.
MatchesTargetCaseSensitive(pos) ==
  LET isDirect == /\ pos.token0 = USDC_ADDRESS
                  /\ pos.token1 = OTHER_TOKEN
                  /\ pos.fee = FEE
      isReversed == /\ pos.token0 = OTHER_TOKEN
                    /\ pos.token1 = USDC_ADDRESS
                    /\ pos.fee = FEE
  IN isDirect \/ isReversed

\* Lines 100-112: the filter predicate of fetchPositionsForAddress.
MatchesTarget(pos) ==
  LET isDirect == /\ ToLowerCase(pos.token0) = ToLowerCase(USDC_ADDRESS)
                  /\ ToLowerCase(pos.token1) = ToLowerCase(OTHER_TOKEN)
                  /\ pos.fee = FEE
      isReversed == /\ ToLowerCase(pos.token0) = ToLowerCase(OTHER_TOKEN)
                    /\ ToLowerCase(pos.token1) = ToLowerCase(USDC_ADDRESS)
                    /\ pos.fee = FEE
  IN isDirect \/ isReversed

\* Lines 93-112: rawPositions.map(...).filter(...).  Number(fee) and
\* Number(liquidity) are exact on the magnitudes of the model.
FilterPositions(raw) == SelectSeq(raw, MatchesTarget)

\* Mutant: the upper tick bound taken as inclusive.
isPositionActiveInclusive(position, currentTick) ==
  currentTick >= position.tickLower /\ currentTick <= position.tickUpper

\* Lines 153-155.
isPositionActive(position, currentTick) ==
  currentTick >= position.tickLower /\ currentTick < position.tickUpper

\* Lines 178-183: the accumulation loop over one address's positions.
RECURSIVE ActiveLiquidityFrom(_, _, _, _)
ActiveLiquidityFrom(positions, i, currentTick, activeLiquidity) ==
  IF i > Len(positions) THEN activeLiquidity
  ELSE ActiveLiquidityFrom(positions, i + 1, currentTick,
         IF isPositionActive(positions[i], currentTick)
         THEN activeLiquidity + positions[i].liquidity
         ELSE activeLiquidity)

\* Lines 175-185: activeLiquidityByAddress, keyed by the roster's addresses.
\* positionsByAddress[addr] || [] : an address without an entry counts as [].
ActiveLiquidityByAddress(addrs, positions, currentTick) ==
  [a \in {addrs[i] : i \in DOMAIN addrs} |->
     ActiveLiquidityFrom(IF a \in DOMAIN positions THEN positions[a] ELSE <<>>,
                         1, currentTick, 0)]

\* Line 170: (Number(sqrtPriceX96) ** 2) / 2^192, with sqrtPriceX96 = s * 2^95.
CurrentPrice(s) == Rat(s * s, 4)

\* Line 207: (activeLiquidity / poolTotalLiquidity) * 100.
Percentage(activeLiquidity, poolTotalLiquidity) ==
  Rat(activeLiquidity * 100, poolTotalLiquidity)

\* Mutant: the length test is off by one.
PushValueLateShift(values, v) ==
  LET appended == Append(values, v)
  IN IF Len(appended) > WINDOW_SIZE + 1 THEN Tail(appended) ELSE appended

\* Mutant: pop() instead of shift(), the newest value is dropped.
PushValuePop(values, v) ==
  LET appended == Append(values, v)
  IN IF Len(appended) > WINDOW_SIZE
     THEN SubSeq(appended, 1, Len(appended) - 1) ELSE appended

\* Lines 209-210 (192-193, 227-228): values.push(v); shift() when over size.
PushValue(values, v) ==
  LET appended == Append(values, v)
  IN IF Len(appended) > WINDOW_SIZE THEN Tail(appended) ELSE appended

\* Lines 211 (194, 229): values.reduce((acc, val) => acc + val, 0), the sum
\* of values[lo..hi].  Rational addition is exact, so the order of the
\* additions is immaterial; the halving keeps the evaluation shallow.
RECURSIVE SumRange(_, _, _)
SumRange(values, lo, hi) ==
  IF lo > hi THEN Zero
  ELSE IF lo = hi THEN RatAdd(Zero, values[lo])
  ELSE LET mid == (lo + hi) \div 2
       IN RatAdd(SumRange(values, lo, mid), SumRange(values, mid + 1, hi))

\* Lines 212 (195, 230): sum / store.values.length.
RollingAvg(values) == RatDivInt(SumRange(values, 1, Len(values)), Len(values))

(***************************************************************************)
(* liquidity_log.csv: a header line followed by data rows.  A data row     *)
(* carries, besides the seven columns, the number of the cycle that wrote  *)
(* it (bookkeeping of the model, not a column of the file).                *)
(***************************************************************************)
Header == [kind |-> "header"]
NA == [na |-> TRUE]
Num(v) == [val |-> v]

Row(timestamp, addr, activeLiquidity, pct, avg, tick, price, cycle) ==
  [kind |-> "row", timestamp |-> timestamp, address |-> addr,
   activeLiquidity |-> activeLiquidity, percentageOfDepth |-> pct,
   rolling72minAvg |-> avg, currentTick |-> tick, currentPrice |-> price,
   cycle |-> cycle]

(***************************************************************************)
(* State.                                                                  *)
(***************************************************************************)
VARIABLES
  rpcUrlSet,          \* process.env.RPC_URL is set (line 10)
  roster,             \* addresses.txt: whether it exists, its non-blank lines
  chain,              \* positionManager: owner -> raw positions
  registry,           \* factory.getPool for the configured pair and fee
  logExists,          \* liquidity_log.csv exists
  logRows,            \* its lines
  pc,                 \* where the process is
  exitCode,           \* status of process.exit, 0 while none
  addresses,          \* line 59
  positionsByAddress, \* line 67
  rollingData,        \* line 50: address -> values
  loaded,             \* roster entries handled by loadAllPositions so far
  poolAddress,        \* main's local (line 247)
  resolution,         \* how getTargetPoolAddress ended
  inflight,           \* updateLoop invocations awaiting a pool read
  now,                \* wall clock, in timer periods
  cycles,             \* poll cycles started so far (numbers the cycles)
  restarts,           \* external terminations so far
  pushed,             \* history: every value pushed per address in this run
  fetchOk,            \* history: address -> its latest fetch did not fail
  outcome,            \* history: cycle number -> how the cycle ended
  runStart,           \* history: cycles started before this run began
  lastCycle           \* history: locals of the last cycle that got its reads

vars == <<rpcUrlSet, roster, chain, registry, logExists, logRows, pc, exitCode,
          addresses, positionsByAddress, rollingData, loaded, poolAddress,
          resolution, inflight, now, cycles, restarts, pushed, fetchOk,
          outcome, runStart, lastCycle>>

env == <<rpcUrlSet, roster, chain, registry>>
logFile == <<logExists, logRows>>
memory == <<addresses, positionsByAddress, rollingData, pushed, fetchOk>>

NoCycle == [id |-> 0]
EmptyMap == [a \in {} |-> <<>>]

Init ==
  /\ rpcUrlSet \in BOOLEAN
  /\ roster \in {[exists |-> FALSE, lines |-> <<>>]} \cup
                 {[exists |-> TRUE, lines |-> r] : r \in Rosters}
  /\ chain \in ChainWorlds
  /\ registry \in {POOL_ADDRESS, ZERO_ADDRESS}
  /\ logExists = FALSE
  /\ logRows = <<>>
  /\ pc = "stopped"
  /\ exitCode = 0
  /\ addresses = <<>>
  /\ positionsByAddress = EmptyMap
  /\ rollingData = EmptyMap
  /\ loaded = 0
  /\ poolAddress = "unset"
  /\ resolution = "none"
  /\ inflight = {}
  /\ now = 0
  /\ cycles = 0
  /\ restarts = 0
  /\ pushed = EmptyMap
  /\ fetchOk = EmptyMap
  /\ outcome = <<>>
  /\ runStart = 0
  /\ lastCycle = NoCycle

(***************************************************************************)
(* The three per-address loops.  Each threads the rolling windows, the     *)
(* lines of the log and the push history through the roster, entry i on.   *)
(***************************************************************************)
Store(rd, rows, hist) == [rd |-> rd, rows |-> rows, hist |-> hist]

\* Mutant: the line goes to the console only.
logAndSaveConsoleOnly(rows, dataLine) == rows

\* Lines 158-161: fs.appendFileSync adds one line at the end of the file
\* (the write is taken to succeed).
logAndSave(rows, dataLine) == Append(rows, dataLine)

\* Mutant: the zero-liquidity branch writes the unavailable-markers.
RECURSIVE ZeroLiquidityLoopNA(_, _, _, _, _, _, _)
ZeroLiquidityLoopNA(addrs, i, st, timestamp, currentTick, currentPrice, id) ==
  IF i > Len(addrs) THEN st
  ELSE LET addr == addrs[i]
           values == PushValue(st.rd[addr], Zero)
           logLine == Row(timestamp, addr, 0, 0, ToFixed(RollingAvg(values), 2),
                          NA, NA, id)
       IN ZeroLiquidityLoopNA(addrs, i + 1,
            Store([st.rd EXCEPT ![addr] = values],
                  logAndSave(st.rows, logLine),
                  [st.hist EXCEPT ![addr] = Append(@, Zero)]),
            timestamp, currentTick, currentPrice, id)

\* Lines 190-199: pool present, total liquidity 0.
RECURSIVE ZeroLiquidityLoop(_, _, _, _, _, _, _)
ZeroLiquidityLoop(addrs, i, st, timestamp, currentTick, currentPrice, id) ==
  IF i > Len(addrs) THEN st
  ELSE LET addr == addrs[i]
           values == PushValue(st.rd[addr], Zero)
           rollingAvg == RollingAvg(values)
           logLine == Row(timestamp, addr, 0, 0, ToFixed(rollingAvg, 2),
                          Num(currentTick), Num(ToFixed(currentPrice, 6)), id)
       IN ZeroLiquidityLoop(addrs, i + 1,
            Store([st.rd EXCEPT ![addr] = values],
                  logAndSave(st.rows, logLine),
                  [st.hist EXCEPT ![addr] = Append(@, Zero)]),
            timestamp, currentTick, currentPrice, id)

\* Mutant: the clock is read for each record, inside the loop, and has moved
\* on between two records.
RECURSIVE PercentageLoopStampsEachRow(_, _, _, _, _, _, _, _, _)
PercentageLoopStampsEachRow(addrs, i, st, timestamp, currentTick, currentPrice, activeLiquidityByAddress, poolTotalLiquidity, id) ==
  IF i > Len(addrs) THEN st
  ELSE LET addr == addrs[i]
           activeLiquidity == activeLiquidityByAddress[addr]
           percentage == Percentage(activeLiquidity, poolTotalLiquidity)
           values == PushValue(st.rd[addr], percentage)
           rollingAvg == RollingAvg(values)
           logLine == Row(timestamp + i - 1, addr, activeLiquidity,
                          ToFixed(percentage, 2), ToFixed(rollingAvg, 2),
                          Num(currentTick), Num(ToFixed(currentPrice, 6)), id)
       IN PercentageLoopStampsEachRow(addrs, i + 1,
            Store([st.rd EXCEPT ![addr] = values],
                  logAndSave(st.rows, logLine),
                  [st.hist EXCEPT ![addr] = Append(@, percentage)]),
            timestamp, currentTick, currentPrice,
            activeLiquidityByAddress, poolTotalLiquidity, id)

\* Lines 205-215: pool present, total liquidity not 0.
RECURSIVE PercentageLoop(_, _, _, _, _, _, _, _, _)
PercentageLoop(addrs, i, st, timestamp, currentTick, currentPrice, activeLiquidityByAddress, poolTotalLiquidity, id) ==
  IF i > Len(addrs) THEN st
  ELSE LET addr == addrs[i]
           activeLiquidity == activeLiquidityByAddress[addr]
           percentage == Percentage(activeLiquidity, poolTotalLiquidity)
           values == PushValue(st.rd[addr], percentage)
           rollingAvg == RollingAvg(values)
           logLine == Row(timestamp, addr, activeLiquidity,
                          ToFixed(percentage, 2), ToFixed(rollingAvg, 2),
                          Num(currentTick), Num(ToFixed(currentPrice, 6)), id)
       IN PercentageLoop(addrs, i + 1,
            Store([st.rd EXCEPT ![addr] = values],
                  logAndSave(st.rows, logLine),
                  [st.hist EXCEPT ![addr] = Append(@, percentage)]),
            timestamp, currentTick, currentPrice,
            activeLiquidityByAddress, poolTotalLiquidity, id)

\* Mutant: the degraded loop logs without touching the window.
RECURSIVE NoPoolLoopNoPush(_, _, _, _, _)
NoPoolLoopNoPush(addrs, i, st, timestamp, id) ==
  IF i > Len(addrs) THEN st
  ELSE LET addr == addrs[i]
           logLine == Row(timestamp, addr, 0, 0, 0, NA, NA, id)
       IN NoPoolLoopNoPush(addrs, i + 1,
            Store(st.rd, logAndSave(st.rows, logLine), st.hist),
            timestamp, id)

\* Mutant: the degraded loop pushes -1 to mark a poll without pool.
RECURSIVE NoPoolLoopPushesMarker(_, _, _, _, _)
NoPoolLoopPushesMarker(addrs, i, st, timestamp, id) ==
  IF i > Len(addrs) THEN st
  ELSE LET addr == addrs[i]
           values == PushValue(st.rd[addr], [n |-> -1, d |-> 1])
           rollingAvg == RollingAvg(values)
           logLine == Row(timestamp, addr, 0, 0, ToFixed(rollingAvg, 2),
                          NA, NA, id)
       IN NoPoolLoopPushesMarker(addrs, i + 1,
            Store([st.rd EXCEPT ![addr] = values],
                  logAndSave(st.rows, logLine),
                  [st.hist EXCEPT ![addr] = Append(@, [n |-> -1, d |-> 1])]),
            timestamp, id)

\* Lines 225-233: the body of updateLoopNoPool.
RECURSIVE NoPoolLoop(_, _, _, _, _)
NoPoolLoop(addrs, i, st, timestamp, id) ==
  IF i > Len(addrs) THEN st
  ELSE LET addr == addrs[i]
           values == PushValue(st.rd[addr], Zero)
           rollingAvg == RollingAvg(values)
           logLine == Row(timestamp, addr, 0, 0, ToFixed(rollingAvg, 2),
                          NA, NA, id)
       IN NoPoolLoop(addrs, i + 1,
            Store([st.rd EXCEPT ![addr] = values],
                  logAndSave(st.rows, logLine),
                  [st.hist EXCEPT ![addr] = Append(@, Zero)]),
            timestamp, id)

(***************************************************************************)
(* Startup.                                                                *)
(***************************************************************************)

\* Mutant: the checks of the configuration come after main has written the
\* header of a missing log file.
StartFailsAfterHeader ==
  /\ pc = "stopped"
  /\ ~rpcUrlSet \/ ~roster.exists
  /\ IF ~logExists
     THEN logExists' = TRUE /\ logRows' = <<Header>>
     ELSE UNCHANGED logFile
  /\ pc' = "exited"
  /\ exitCode' = 1
  /\ UNCHANGED <<env, memory, loaded, poolAddress, resolution, inflight, now,
                 cycles, restarts, outcome, runStart, lastCycle>>

\* Lines 10-14 and 54-58: process.exit(1) before anything else happens.
StartFails ==
  /\ pc = "stopped"
  /\ ~rpcUrlSet \/ ~roster.exists
  /\ pc' = "exited"
  /\ exitCode' = 1
  /\ UNCHANGED <<env, logFile, memory, loaded, poolAddress, resolution,
                 inflight, now, cycles, restarts, outcome, runStart,
                 lastCycle>>

\* Mutant: the header is written on every start, truncating the file.
StartTruncates ==
  /\ pc = "stopped"
  /\ rpcUrlSet /\ roster.exists
  /\ addresses' = roster.lines
  /\ positionsByAddress' = EmptyMap
  /\ rollingData' = EmptyMap
  /\ pushed' = EmptyMap
  /\ fetchOk' = EmptyMap
  /\ logExists' = TRUE /\ logRows' = <<Header>>
  /\ pc' = "load"
  /\ loaded' = 0
  /\ runStart' = cycles
  /\ UNCHANGED <<env, exitCode, poolAddress, resolution, inflight, now, cycles,
                 restarts, outcome, lastCycle>>

\* Lines 10-67 and 238-246: the module body, then main up to its first await.
Start ==
  /\ pc = "stopped"
  /\ rpcUrlSet /\ roster.exists
  /\ addresses' = roster.lines
  /\ positionsByAddress' = EmptyMap
  /\ rollingData' = EmptyMap
  /\ pushed' = EmptyMap
  /\ fetchOk' = EmptyMap
  /\ IF ~logExists
     THEN logExists' = TRUE /\ logRows' = <<Header>>
     ELSE UNCHANGED logFile
  /\ pc' = "load"
  /\ loaded' = 0
  /\ runStart' = cycles
  /\ UNCHANGED <<env, exitCode, poolAddress, resolution, inflight, now, cycles,
                 restarts, outcome, lastCycle>>

\* The calls of fetchPositionsForAddress that can reject.
FetchCalls == {"balanceOf", "tokenOfOwnerByIndex", "positions"}

\* Lines 82-117: whether fetchPositionsForAddress ends in its catch when the
\* call named by failing rejects (with a balance of 0 only balanceOf is made).
FetchThrows(raw, failing) ==
  \/ failing = "balanceOf"
  \/ Len(raw) > 0 /\ failing \in {"tokenOfOwnerByIndex", "positions"}

\* Mutant: a rejected positions() read keeps the positions read before it.
fetchPositionsForAddressPartial(raw, failing) ==
  IF failing = "positions" /\ Len(raw) > 0
  THEN FilterPositions(SubSeq(raw, 1, Len(raw) - 1))
  ELSE IF FetchThrows(raw, failing) THEN <<>>
  ELSE IF Len(raw) = 0 THEN <<>>
  ELSE FilterPositions(raw)

\* Lines 82-117: what fetchPositionsForAddress returns.
fetchPositionsForAddress(raw, failing) ==
  IF FetchThrows(raw, failing) THEN <<>>
  ELSE IF Len(raw) = 0 THEN <<>>
  ELSE FilterPositions(raw)

\* Lines 122-127: one iteration of loadAllPositions.  failing names the call
\* of the position manager that rejects, "none" when all succeed.
LoadPositions(failing) ==
  /\ pc = "load"
  /\ loaded < Len(addresses)
  /\ LET addr == addresses[loaded + 1]
         pos == fetchPositionsForAddress(chain[addr], failing)
     IN /\ positionsByAddress' = (addr :> pos) @@ positionsByAddress
        /\ rollingData' = (addr :> <<>>) @@ rollingData
        /\ pushed' = (addr :> <<>>) @@ pushed
        /\ fetchOk' = (addr :> ~FetchThrows(chain[addr], failing)) @@ fetchOk
  /\ loaded' = loaded + 1
  /\ UNCHANGED <<env, logFile, pc, exitCode, addresses, poolAddress,
                 resolution, inflight, now, cycles, restarts, outcome,
                 runStart, lastCycle>>

\* Lines 132-135: totalPositions over the roster's entries.
RECURSIVE TotalPositionsFrom(_, _, _, _)
TotalPositionsFrom(addrs, positions, i, totalPositions) ==
  IF i > Len(addrs) THEN totalPositions
  ELSE TotalPositionsFrom(addrs, positions, i + 1,
         totalPositions + Len(IF addrs[i] \in DOMAIN positions
                              THEN positions[addrs[i]] ELSE <<>>))

\* Mutant: the registry is consulted whatever the number of positions.
ResolveAlwaysLooksUp(throws) ==
  /\ pc = "load"
  /\ loaded = Len(addresses)
  /\ IF throws
     THEN poolAddress' = "null" /\ resolution' = "threw"
     ELSE IF registry = ZERO_ADDRESS
     THEN poolAddress' = "null" /\ resolution' = "zero"
     ELSE poolAddress' = registry /\ resolution' = "found"
  /\ pc' = "resolved"
  /\ UNCHANGED <<env, logFile, memory, exitCode, loaded, inflight, now,
                 cycles, restarts, outcome, runStart, lastCycle>>

\* Lines 131-150 and 247-253: getTargetPoolAddress and main's try/catch.
\* throws is whether the lookup (lines 140-144) raises an exception.
Resolve(throws) ==
  /\ pc = "load"
  /\ loaded = Len(addresses)
  /\ LET totalPositions ==
           TotalPositionsFrom(addresses, positionsByAddress, 1, 0)
     IN IF totalPositions = 0
        THEN poolAddress' = "null" /\ resolution' = "skipped"
        ELSE IF throws
        THEN poolAddress' = "null" /\ resolution' = "threw"
        ELSE IF registry = ZERO_ADDRESS
        THEN poolAddress' = "null" /\ resolution' = "zero"
        ELSE poolAddress' = registry /\ resolution' = "found"
  /\ pc' = "resolved"
  /\ UNCHANGED <<env, logFile, memory, exitCode, loaded, inflight, now,
                 cycles, restarts, outcome, runStart, lastCycle>>

(***************************************************************************)
(* Degraded mode: updateLoopNoPool has no await, it runs in one step.      *)
(***************************************************************************)
updateLoopNoPool ==
  LET id == cycles + 1
      st == NoPoolLoop(addresses, 1, Store(rollingData, logRows, pushed),
                       now', id)
  IN /\ rollingData' = st.rd
     /\ logRows' = st.rows
     /\ pushed' = st.hist
     /\ cycles' = id
     /\ outcome' = Append(outcome, "done")
     /\ UNCHANGED <<env, logExists, exitCode, addresses, positionsByAddress,
                    fetchOk, loaded, poolAddress, resolution, inflight,
                    restarts, runStart, lastCycle>>

\* Lines 255-260: the first degraded cycle, then setInterval.
StartNoPool ==
  /\ pc = "resolved"
  /\ poolAddress = "null"
  /\ now' = now
  /\ pc' = "timer"
  /\ updateLoopNoPool

\* Line 258: the interval timer fires.
TimerNoPool ==
  /\ pc = "timer"
  /\ poolAddress = "null"
  /\ now' = now + 1
  /\ pc' = pc
  /\ updateLoopNoPool

(***************************************************************************)
(* Active mode: updateLoop suspends at slot0() and at liquidity().         *)
(***************************************************************************)

\* Mutant: every call of updateLoop first reads the positions again.
CallUpdateLoopRefetches ==
  /\ inflight' = inflight \cup {[id |-> cycles + 1, at |-> "slot0"]}
  /\ cycles' = cycles + 1
  /\ outcome' = Append(outcome, "inflight")
  /\ positionsByAddress' =
       [a \in DOMAIN positionsByAddress |-> FilterPositions(chain[a])]
  /\ UNCHANGED <<env, logFile, addresses, rollingData, pushed, fetchOk,
                 exitCode, loaded, poolAddress, resolution, restarts,
                 runStart, lastCycle>>

\* Lines 164-166: a call of updateLoop runs up to await poolContract.slot0().
CallUpdateLoop ==
  /\ inflight' = inflight \cup {[id |-> cycles + 1, at |-> "slot0"]}
  /\ cycles' = cycles + 1
  /\ outcome' = Append(outcome, "inflight")
  /\ UNCHANGED <<env, logFile, memory, exitCode, loaded, poolAddress,
                 resolution, restarts, runStart, lastCycle>>

\* Lines 262-264: main calls updateLoop and awaits it.
StartActive ==
  /\ pc = "resolved"
  /\ poolAddress # "null"
  /\ now' = now
  /\ pc' = "first"
  /\ CallUpdateLoop

\* Lines 265-267: the interval timer fires; the call is not awaited.
TimerActive ==
  /\ pc = "timer"
  /\ poolAddress # "null"
  /\ now' = now + 1
  /\ pc' = pc
  /\ CallUpdateLoop

\* Lines 166-173: slot0() resolves; the cycle goes on to await liquidity().
Slot0Return(c, slot0) ==
  /\ c \in inflight
  /\ c.at = "slot0"
  /\ inflight' = (inflight \ {c}) \cup
       {[id |-> c.id, at |-> "liquidity", currentTick |-> slot0.tick,
         currentPrice |-> CurrentPrice(slot0.sqrtPriceX96)]}
  /\ UNCHANGED <<env, logFile, memory, pc, exitCode, loaded, poolAddress,
                 resolution, now, cycles, restarts, outcome, runStart,
                 lastCycle>>

\* Line 264: main resumes after its awaited first cycle and sets the timer.
AfterCycle == IF pc = "first" THEN "timer" ELSE pc

\* Lines 173-215: liquidity() resolves; the rest of the cycle is synchronous.
LiquidityReturn(c, poolTotalLiquidity) ==
  /\ c \in inflight
  /\ c.at = "liquidity"
  /\ LET activeLiquidityByAddress ==
           ActiveLiquidityByAddress(addresses, positionsByAddress,
                                    c.currentTick)
         timestamp == now
         st0 == Store(rollingData, logRows, pushed)
         st == IF poolTotalLiquidity = 0
               THEN ZeroLiquidityLoop(addresses, 1, st0, timestamp,
                                      c.currentTick, c.currentPrice, c.id)
               ELSE PercentageLoop(addresses, 1, st0, timestamp,
                                   c.currentTick, c.currentPrice,
                                   activeLiquidityByAddress,
                                   poolTotalLiquidity, c.id)
     IN /\ rollingData' = st.rd
        /\ logRows' = st.rows
        /\ pushed' = st.hist
        /\ lastCycle' = [id |-> c.id, currentTick |-> c.currentTick,
                         currentPrice |-> c.currentPrice,
                         poolTotalLiquidity |-> poolTotalLiquidity,
                         activeLiquidityByAddress |-> activeLiquidityByAddress]
  /\ inflight' = inflight \ {c}
  /\ outcome' = [outcome EXCEPT ![c.id] = "done"]
  /\ pc' = AfterCycle
  /\ UNCHANGED <<env, logExists, exitCode, addresses, positionsByAddress,
                 fetchOk, loaded, poolAddress, resolution, now, cycles,
                 restarts, runStart>>

\* Mutant: a failed read falls back to pushing zeros, as the degraded loop.
ReadFailsPushesZero(c) ==
  /\ c \in inflight
  /\ inflight' = inflight \ {c}
  /\ outcome' = [outcome EXCEPT ![c.id] = "skipped"]
  /\ pc' = IF pc = "first" THEN "timer" ELSE pc
  /\ rollingData' = [a \in DOMAIN rollingData |-> PushValue(rollingData[a], Zero)]
  /\ pushed' = [a \in DOMAIN pushed |-> Append(pushed[a], Zero)]
  /\ UNCHANGED <<env, logFile, addresses, positionsByAddress, fetchOk,
                 exitCode, loaded, poolAddress, resolution, now, cycles,
                 restarts, runStart, lastCycle>>

\* Mutant: a failed pool read makes the process fall back to degraded mode.
ReadFailsFallsBack(c) ==
  /\ c \in inflight
  /\ inflight' = inflight \ {c}
  /\ outcome' = [outcome EXCEPT ![c.id] = "skipped"]
  /\ pc' = AfterCycle
  /\ poolAddress' = "null"
  /\ UNCHANGED <<env, logFile, memory, exitCode, loaded, resolution, now,
                 cycles, restarts, runStart, lastCycle>>

\* Lines 216-218: slot0() or liquidity() rejects; the catch ends the cycle.
ReadFails(c) ==
  /\ c \in inflight
  /\ inflight' = inflight \ {c}
  /\ outcome' = [outcome EXCEPT ![c.id] = "skipped"]
  /\ pc' = AfterCycle
  /\ UNCHANGED <<env, logFile, memory, exitCode, loaded, poolAddress,
                 resolution, now, cycles, restarts, runStart, lastCycle>>

(***************************************************************************)
(* The operator terminates the process; nothing in memory survives, the    *)
(* log file does.                                                          *)
(***************************************************************************)
Kill ==
  /\ pc \notin {"stopped", "exited"}
  /\ pc' = "stopped"
  /\ restarts' = restarts + 1
  /\ addresses' = <<>>
  /\ positionsByAddress' = EmptyMap
  /\ rollingData' = EmptyMap
  /\ pushed' = EmptyMap
  /\ fetchOk' = EmptyMap
  /\ loaded' = 0
  /\ poolAddress' = "unset"
  /\ resolution' = "none"
  /\ inflight' = {}
  /\ lastCycle' = NoCycle
  /\ outcome' = [i \in DOMAIN outcome |->
                   IF outcome[i] = "inflight" THEN "killed" ELSE outcome[i]]
  /\ UNCHANGED <<env, logFile, exitCode, now, cycles, runStart>>

(***************************************************************************)
(* Between two runs the operator's environment loses what the module body  *)
(* checks for: the RPC_URL variable (line 10) or addresses.txt (line 55).  *)
(* roster.lines keeps what the file held when it last existed.             *)
(***************************************************************************)
ConfigRemoved(what) ==
  /\ pc = "stopped"
  /\ logExists
  /\ rpcUrlSet /\ roster.exists
  /\ IF what = "RPC_URL"
     THEN rpcUrlSet' = FALSE /\ UNCHANGED roster
     ELSE roster' = [roster EXCEPT !.exists = FALSE] /\ UNCHANGED rpcUrlSet
  /\ UNCHANGED <<chain, registry, logFile, memory, pc, exitCode, loaded,
                 poolAddress, resolution, inflight, now, cycles, restarts,
                 outcome, runStart, lastCycle>>

(***************************************************************************)
(* Specification: every interleaving of the steps above, the pool reads    *)
(* returning any snapshot.                                                 *)
(***************************************************************************)
Next ==
  \/ StartFails
  \/ Start
  \/ \E failing \in FetchCalls \cup {"none"} : LoadPositions(failing)
  \/ \E throws \in BOOLEAN : Resolve(throws)
  \/ cycles < MaxCycles /\ StartNoPool
  \/ cycles < MaxCycles /\ TimerNoPool
  \/ cycles < MaxCycles /\ StartActive
  \/ cycles < MaxCycles /\ Cardinality(inflight) < MaxInFlight /\ TimerActive
  \/ \E c \in inflight, slot0 \in Slot0s : Slot0Return(c, slot0)
  \/ \E c \in inflight, l \in Liquidities : LiquidityReturn(c, l)
  \/ \E c \in inflight : ReadFails(c)
  \/ restarts < MaxRestarts /\ Kill
  \/ \E what \in {"RPC_URL", "addresses.txt"} : ConfigRemoved(what)

Spec == Init /\ [][Next]_vars

(***************************************************************************)
(* Long runs: mostly one cycle at a time, the pool on a fixed trajectory    *)
(* (every third tick is 100, every fourth snapshot has no liquidity),      *)
(* far enough for the rolling windows to fill and evict.                   *)
(***************************************************************************)
Slot0At(id) ==
  LET t == IF id % 3 = 0 THEN 100 ELSE 0
  IN [tick |-> t, sqrtPriceX96 |-> SqrtUnitsAt(t)]

LiquidityAt(id) == IF id % 4 = 0 THEN 0 ELSE 1000

\* Cycles whose pool read may fail in a long run.
FailingAt(id) == id % 30 = 0

\* Cycles the timer may start in a long run while the previous one still
\* awaits a read: one per fill of a window over a repeated address, one per
\* fill of a window over a single address.
OverlappingAt(id) == id % 37 = 0

NextLong ==
  \/ StartFails
  \/ Start
  \/ LoadPositions("none")
  \/ Resolve(FALSE)
  \/ cycles < MaxCyclesLong /\ StartNoPool
  \/ cycles < MaxCyclesLong /\ TimerNoPool
  \/ cycles < MaxCyclesLong /\ StartActive
  \/ /\ cycles < MaxCyclesLong
     /\ inflight = {} \/ OverlappingAt(cycles + 1)
     /\ TimerActive
  \/ \E c \in inflight : Slot0Return(c, Slot0At(c.id))
  \/ \E c \in inflight : LiquidityReturn(c, LiquidityAt(c.id))
  \/ \E c \in inflight : FailingAt(c.id) /\ ReadFails(c)

SpecLong == Init /\ [][NextLong]_vars

(***************************************************************************)
(* A failing sink: appendFileSync throws while the k-th roster entry of a   *)
(* cycle is being recorded.  The entries before it are pushed and          *)
(* recorded, the k-th is pushed (the push precedes logAndSave in every     *)
(* loop) and not recorded, the later ones are not reached.                 *)
(***************************************************************************)

\* Lines 222-234 with 158-161: updateLoopNoPool, which has no try/catch,
\* rejects out of its loop.
updateLoopNoPoolThrows(k) ==
  LET id == cycles + 1
      addr == addresses[k]
      st == NoPoolLoop(SubSeq(addresses, 1, k - 1), 1,
                       Store(rollingData, logRows, pushed), now', id)
  IN /\ k \in 1..Len(addresses)
     /\ rollingData' = [st.rd EXCEPT ![addr] = PushValue(@, Zero)]
     /\ pushed' = [st.hist EXCEPT ![addr] = Append(@, Zero)]
     /\ logRows' = st.rows
     /\ cycles' = id
     /\ outcome' = Append(outcome, "threw")
     /\ UNCHANGED <<env, logExists, addresses, positionsByAddress, fetchOk,
                    loaded, poolAddress, resolution, inflight, restarts,
                    runStart, lastCycle>>

\* Lines 258 and 270-273: the rejection of the awaited first degraded cycle
\* rejects main(); its catch calls process.exit(1).
StartNoPoolSinkFails(k) ==
  /\ pc = "resolved"
  /\ poolAddress = "null"
  /\ now' = now
  /\ updateLoopNoPoolThrows(k)
  /\ pc' = "exited"
  /\ exitCode' = 1

\* Line 259: nothing handles the rejection of a cycle the timer started.
\* The runtime decides what an unhandled rejection does: it ends the process
\* with exit code 1 (fatal), or it only prints a warning.
TimerNoPoolSinkFails(k, fatal) ==
  /\ pc = "timer"
  /\ poolAddress = "null"
  /\ now' = now + 1
  /\ updateLoopNoPoolThrows(k)
  /\ IF fatal
     THEN pc' = "exited" /\ exitCode' = 1
     ELSE UNCHANGED <<pc, exitCode>>

\* Lines 187-218 with 158-161: in updateLoop the throw is inside the try;
\* the catch logs it and the cycle ends with part of its rows written.
LiquidityReturnSinkFails(c, poolTotalLiquidity, k) ==
  /\ c \in inflight
  /\ c.at = "liquidity"
  /\ k \in 1..Len(addresses)
  /\ LET activeLiquidityByAddress ==
           ActiveLiquidityByAddress(addresses, positionsByAddress,
                                    c.currentTick)
         timestamp == now
         addr == addresses[k]
         before == SubSeq(addresses, 1, k - 1)
         st0 == Store(rollingData, logRows, pushed)
         st == IF poolTotalLiquidity = 0
               THEN ZeroLiquidityLoop(before, 1, st0, timestamp,
                                      c.currentTick, c.currentPrice, c.id)
               ELSE PercentageLoop(before, 1, st0, timestamp,
                                   c.currentTick, c.currentPrice,
                                   activeLiquidityByAddress,
                                   poolTotalLiquidity, c.id)
         value == IF poolTotalLiquidity = 0 THEN Zero
                  ELSE Percentage(activeLiquidityByAddress[addr],
                                  poolTotalLiquidity)
     IN /\ rollingData' = [st.rd EXCEPT ![addr] = PushValue(@, value)]
        /\ pushed' = [st.hist EXCEPT ![addr] = Append(@, value)]
        /\ logRows' = st.rows
  /\ inflight' = inflight \ {c}
  /\ outcome' = [outcome EXCEPT ![c.id] = "threw"]
  /\ pc' = AfterCycle
  /\ UNCHANGED <<env, logExists, exitCode, addresses, positionsByAddress,
                 fetchOk, loaded, poolAddress, resolution, now, cycles,
                 restarts, runStart, lastCycle>>

\* Every step of a single run, the sink failing at any record.
NextSink ==
  \/ StartFails
  \/ Start
  \/ \E failing \in FetchCalls \cup {"none"} : LoadPositions(failing)
  \/ \E throws \in BOOLEAN : Resolve(throws)
  \/ cycles < MaxCycles /\ StartNoPool
  \/ cycles < MaxCycles /\ TimerNoPool
  \/ cycles < MaxCycles /\ StartActive
  \/ cycles < MaxCycles /\ Cardinality(inflight) < MaxInFlight /\ TimerActive
  \/ \E c \in inflight, slot0 \in Slot0s : Slot0Return(c, slot0)
  \/ \E c \in inflight, l \in Liquidities : LiquidityReturn(c, l)
  \/ \E c \in inflight : ReadFails(c)
  \/ cycles < MaxCycles /\ \E k \in 1..Len(addresses) : StartNoPoolSinkFails(k)
  \/ cycles < MaxCycles /\ \E k \in 1..Len(addresses), fatal \in BOOLEAN :
       TimerNoPoolSinkFails(k, fatal)
  \/ \E c \in inflight, l \in Liquidities, k \in 1..Len(addresses) :
       LiquidityReturnSinkFails(c, l, k)

SpecSink == Init /\ [][NextSink]_vars

(***************************************************************************)
(* The filter on its own: one address whose positions are any list of at   *)
(* most MaxRawLen positions of the five kinds, loaded without failure.     *)
(***************************************************************************)
RawKinds == {RawDirect, RawReversed, RawWrongFee, RawWrongPair, RawSameToken}

RawLists == UNION {[1..n -> RawKinds] : n \in 0..MaxRawLen}

InitFilter ==
  /\ rpcUrlSet = TRUE
  /\ roster = [exists |-> TRUE, lines |-> <<"a1">>]
  /\ chain \in {[a \in Addrs |-> IF a = "a1" THEN raw ELSE <<>>] :
                  raw \in RawLists}
  /\ registry = POOL_ADDRESS
  /\ logExists = FALSE
  /\ logRows = <<>>
  /\ pc = "stopped"
  /\ exitCode = 0
  /\ addresses = <<>>
  /\ positionsByAddress = EmptyMap
  /\ rollingData = EmptyMap
  /\ loaded = 0
  /\ poolAddress = "unset"
  /\ resolution = "none"
  /\ inflight = {}
  /\ now = 0
  /\ cycles = 0
  /\ restarts = 0
  /\ pushed = EmptyMap
  /\ fetchOk = EmptyMap
  /\ outcome = <<>>
  /\ runStart = 0
  /\ lastCycle = NoCycle

NextFilter ==
  \/ Start
  \/ LoadPositions("none")
  \/ Resolve(FALSE)

SpecFilter == InitFilter /\ [][NextFilter]_vars

(***************************************************************************)
(* Vocabulary of the properties.                                           *)
(***************************************************************************)
Min(a, b) == IF a < b THEN a ELSE b

\* The last k elements of s.
LastN(s, k) == SubSeq(s, Len(s) - k + 1, Len(s))

\* The arithmetic mean of a non-empty sequence of rationals: the rational m
\* with Len(s) * m = s[1] + ... + s[Len(s)], the sum taken in tenths (every
\* value pushed in the model is a whole number of tenths).
RECURSIVE TenthsIn(_, _, _)
TenthsIn(s, lo, hi) ==
  IF lo > hi THEN 0
  ELSE IF lo = hi THEN (s[lo].n * 10) \div s[lo].d
  ELSE TenthsIn(s, lo, (lo + hi) \div 2) + TenthsIn(s, (lo + hi) \div 2 + 1, hi)
MeanOf(s) == Rat(TenthsIn(s, 1, Len(s)), 10 * Len(s))

\* The data rows of the log written for address a, and those of cycle id.
IsRow(r) == r.kind = "row"
RowsOfAddress(a) == SelectSeq(logRows, LAMBDA r : IsRow(r) /\ r.address = a)
RowsOfCycle(id) == SelectSeq(logRows, LAMBDA r : IsRow(r) /\ r.cycle = id)

\* The addresses of the roster in memory, and how often each is listed.
Tracked == {addresses[i] : i \in DOMAIN addresses}
TimesListed(a) == Cardinality({i \in DOMAIN addresses : addresses[i] = a})

(***************************************************************************)
(* C1.  Every rolling window holds at most WINDOW_SIZE = 72 values in      *)
(* every reachable state, and a step that pushes into a window keeps the   *)
(* old values followed by the pushed ones, minus exactly as many of the    *)
(* oldest as it takes to stay at 72 (one push into a full window removes   *)
(* exactly the oldest value).                                              *)
(***************************************************************************)
WindowsBounded ==
  \A a \in DOMAIN rollingData : Len(rollingData[a]) <= 72

PushEvictsOldest ==
  \A a \in DOMAIN rollingData \cap DOMAIN rollingData' :
    Len(pushed'[a]) > Len(pushed[a]) =>
      LET new == SubSeq(pushed'[a], Len(pushed[a]) + 1, Len(pushed'[a]))
          all == rollingData[a] \o new
      IN /\ Len(rollingData'[a]) <= 72
         /\ rollingData'[a] = LastN(all, Min(Len(all), 72))

C1_WindowNeverExceedsSize == []WindowsBounded /\ [][PushEvictsOldest]_vars

\* A full window has been pushed into.
C1_Witness ==
  \E a \in DOMAIN rollingData :
    Len(rollingData[a]) = 72 /\ Len(pushed[a]) > 72

(***************************************************************************)
(* C2.  After n pushes into an address's window the window is the last     *)
(* min(n, 72) pushed values in push order, and the rolling average of the  *)
(* row written last for that address is the mean of those values, to two   *)
(* decimals.                                                               *)
(***************************************************************************)
C2_WindowIsMostRecentValues ==
  \A a \in DOMAIN rollingData :
    LET n == Len(pushed[a])
        recent == LastN(pushed[a], Min(n, 72))
        rows == RowsOfAddress(a)
    IN /\ rollingData[a] = recent
       /\ n > 0 => /\ Len(rows) > 0
                   /\ rows[Len(rows)].rolling72minAvg = ToFixed(MeanOf(recent), 2)

\* More than 72 pushes happened, and the evicted first value differs from
\* the oldest value kept.
C2_Witness ==
  \E a \in DOMAIN rollingData :
    /\ Len(pushed[a]) > 72
    /\ pushed[a][1] # rollingData[a][1]
    /\ rollingData[a][1] # rollingData[a][72]

(***************************************************************************)
(* C3.  A position is active iff tickLower <= currentTick < tickUpper, and *)
(* the active liquidity a cycle computes for an address is the sum of the  *)
(* liquidity of its cached positions that are active at the sampled tick:  *)
(* the lone position [-100, 100) with liquidity 500 gives 500 at tick 0    *)
(* and 0 at tick 100.                                                      *)
(***************************************************************************)
InRange(p, tick) == p.tickLower <= tick /\ tick < p.tickUpper

RECURSIVE LiquidityOver(_, _)
LiquidityOver(positions, I) ==
  IF I = {} THEN 0
  ELSE LET i == CHOOSE j \in I : TRUE
       IN positions[i].liquidity + LiquidityOver(positions, I \ {i})

InRangeLiquidity(positions, tick) ==
  LiquidityOver(positions, {i \in DOMAIN positions : InRange(positions[i], tick)})

C3_ActiveLiquidityIsInRangeSum ==
  lastCycle.id # 0 =>
    /\ DOMAIN lastCycle.activeLiquidityByAddress = Tracked
    /\ \A a \in Tracked :
         LET computed == lastCycle.activeLiquidityByAddress[a]
             tick == lastCycle.currentTick
         IN /\ computed = InRangeLiquidity(positionsByAddress[a], tick)
            /\ positionsByAddress[a] = <<RawDirect>> =>
                 computed = IF tick = 100 THEN 0 ELSE 500

\* The tick sits on the upper bound of the lone position [-100, 100) of one
\* address and inside a position of another.
C3_Witness ==
  /\ lastCycle.id # 0
  /\ lastCycle.currentTick = 100
  /\ \E a, b \in Tracked :
       /\ positionsByAddress[a] = <<RawDirect>>
       /\ lastCycle.activeLiquidityByAddress[a] = 0
       /\ lastCycle.activeLiquidityByAddress[b] = 250

(***************************************************************************)
(* C4.  As claimed: every poll cycle that has ended, in any pool state,    *)
(* has appended exactly one row for each entry of the roster, in roster    *)
(* order.                                                                  *)
(***************************************************************************)
OneRowPerEntry(id) ==
  LET rows == RowsOfCycle(id)
  IN /\ Len(rows) = Len(roster.lines)
     /\ \A j \in DOMAIN rows : rows[j].address = roster.lines[j]

C4_EveryCycleWritesOneRowPerEntry ==
  \A id \in DOMAIN outcome :
    outcome[id] \in {"done", "skipped"} => OneRowPerEntry(id)

(***************************************************************************)
(* C4, amended.  Every poll cycle that was not skipped by a failed pool    *)
(* read has appended exactly one row for each entry of the roster, in      *)
(* roster order, whatever the pool state; a cycle that was skipped, or has *)
(* not got its reads yet, has appended none.                               *)
(***************************************************************************)
C4_CompletedCycleWritesOneRowPerEntry ==
  \A id \in DOMAIN outcome :
    IF outcome[id] = "done" THEN OneRowPerEntry(id) ELSE RowsOfCycle(id) = <<>>

\* A cycle of a two-entry roster wrote its rows and another one was skipped.
C4_Witness ==
  /\ Len(roster.lines) = 2
  /\ \E id, sk \in DOMAIN outcome :
       /\ outcome[id] = "done" /\ Len(RowsOfCycle(id)) = 2
       /\ outcome[sk] = "skipped"

(***************************************************************************)
(* C5.  A step in which a cycle's pool read fails leaves the log and every *)
(* rolling window as they were, leaves the process running with its timer  *)
(* armed in active mode, and no row of the log is ever attributed to a     *)
(* skipped cycle.                                                          *)
(***************************************************************************)
CycleSkippedInStep ==
  \E id \in DOMAIN outcome : outcome[id] = "inflight" /\ outcome'[id] = "skipped"

SkipLeavesNoTrace ==
  CycleSkippedInStep =>
    /\ rollingData' = rollingData
    /\ logRows' = logRows /\ logExists' = logExists
    /\ pc' = "timer" /\ exitCode' = 0 /\ poolAddress' = POOL_ADDRESS

SkippedCyclesHaveNoRows ==
  \A id \in DOMAIN outcome : outcome[id] = "skipped" => RowsOfCycle(id) = <<>>

C5_FailedReadSkipsCycle == [][SkipLeavesNoTrace]_vars /\ []SkippedCyclesHaveNoRows

\* A cycle was skipped after windows had values, and the cycle the timer
\* started next ran to its rows.
C5_Witness ==
  \E id \in DOMAIN outcome :
    /\ id > runStart + 1
    /\ outcome[id] = "skipped"
    /\ id + 1 \in DOMAIN outcome
    /\ outcome[id + 1] = "done"
    /\ RowsOfCycle(id + 1) # <<>>

(***************************************************************************)
(* C6.  As claimed: at most one poll cycle is in flight at any time.       *)
(***************************************************************************)
C6_AtMostOneCycleInFlight == Cardinality(inflight) <= 1

(***************************************************************************)
(* C7.  After an active-mode cycle that sampled a pool total liquidity of  *)
(* 0, the value pushed last into every tracked window is 0, and the cycle  *)
(* has one row per roster entry with percentage 0.00, the sampled tick and *)
(* the price of the sampled slot0 to six decimals, not the marker N/A.     *)
(***************************************************************************)
PriceFieldAt(tick) == CASE tick = 0 -> 1000000 [] tick = 100 -> 2250000

C7_ZeroLiquidityLogsZeroPercent ==
  (lastCycle.id # 0 /\ lastCycle.poolTotalLiquidity = 0) =>
    LET rows == RowsOfCycle(lastCycle.id)
    IN /\ Len(rows) = Len(addresses)
       /\ \A j \in DOMAIN rows :
            /\ rows[j].address = addresses[j]
            /\ rows[j].percentageOfDepth = 0
            /\ rows[j].currentTick = Num(lastCycle.currentTick)
            /\ rows[j].currentPrice = Num(PriceFieldAt(lastCycle.currentTick))
       /\ \A a \in Tracked :
            /\ rollingData[a] # <<>>
            /\ rollingData[a][Len(rollingData[a])] = Zero
            /\ pushed[a][Len(pushed[a])] = Zero

\* The pool had no liquidity while an address had positions in range.
C7_Witness ==
  /\ lastCycle.id # 0
  /\ lastCycle.poolTotalLiquidity = 0
  /\ \E a \in Tracked : lastCycle.activeLiquidityByAddress[a] > 0
  /\ RowsOfCycle(lastCycle.id) # <<>>

(***************************************************************************)
(* C8.  In degraded mode every cycle of the run has one row per roster     *)
(* entry, in roster order, of the form 0, 0.00%, <rolling average>%, N/A,  *)
(* N/A, the rolling average being the one of the window at that push, and  *)
(* every cycle has pushed one 0 per roster entry into the windows.         *)
(***************************************************************************)
C8_DegradedCycleLogsZeros ==
  (poolAddress = "null" /\ pc = "timer") =>
    /\ \A id \in (runStart + 1) .. cycles :
         LET rows == RowsOfCycle(id)
         IN /\ Len(rows) = Len(addresses)
            /\ \A j \in DOMAIN rows :
                 /\ rows[j].address = addresses[j]
                 /\ rows[j].activeLiquidity = 0
                 /\ rows[j].percentageOfDepth = 0
                 /\ rows[j].rolling72minAvg = 0
                 /\ rows[j].currentTick = NA
                 /\ rows[j].currentPrice = NA
    /\ \A a \in Tracked :
         /\ Len(pushed[a]) = (cycles - runStart) * TimesListed(a)
         /\ \A k \in DOMAIN pushed[a] : pushed[a][k] = Zero
         /\ rollingData[a] = LastN(pushed[a], Min(Len(pushed[a]), 72))

\* Two degraded cycles have run over a roster of two addresses.
C8_Witness ==
  /\ poolAddress = "null" /\ pc = "timer"
  /\ cycles - runStart >= 2
  /\ Cardinality(Tracked) = 2

(***************************************************************************)
(* C9.  As claimed: once the mode is chosen, the process is in degraded    *)
(* mode iff the registry holds the zero address or the lookup threw.       *)
(***************************************************************************)
ModeChosen == pc \in {"resolved", "first", "timer"}
Degraded == poolAddress = "null"

C9_ModeFollowsRegistryAlone ==
  ModeChosen => (Degraded <=> (registry = ZERO_ADDRESS \/ resolution = "threw"))

(***************************************************************************)
(* C9, amended.  The process is in degraded mode iff no position was       *)
(* loaded for any roster entry (the registry is then not consulted), or    *)
(* the registry holds the zero address, or the lookup threw; otherwise it  *)
(* is in active mode, on the pool address the registry holds.              *)
(***************************************************************************)
NoPositionLoaded ==
  \A i \in DOMAIN addresses : positionsByAddress[addresses[i]] = <<>>

C9_ModeFollowsPositionsAndRegistry ==
  ModeChosen =>
    /\ Degraded <=>
         (NoPositionLoaded \/ registry = ZERO_ADDRESS \/ resolution = "threw")
    /\ ~Degraded => poolAddress = registry

\* The registry holds the pool, nothing threw, and the run is degraded.
C9_Witness ==
  /\ pc = "timer"
  /\ Degraded
  /\ registry = POOL_ADDRESS
  /\ resolution = "skipped"
  /\ addresses # <<>>

(***************************************************************************)
(* C10.  The log is only ever extended: every step leaves the lines of the *)
(* log as a prefix of what it holds afterwards and never removes the file; *)
(* once the file exists its first line is the header and no other line is. *)
(***************************************************************************)
IsPrefix(s, t) == Len(s) <= Len(t) /\ SubSeq(t, 1, Len(s)) = s

LogOnlyGrows == (logExists => logExists') /\ IsPrefix(logRows, logRows')

HeaderOnceAndFirst ==
  IF logExists
  THEN /\ logRows # <<>>
       /\ \A i \in DOMAIN logRows : (logRows[i] = Header) <=> (i = 1)
  ELSE logRows = <<>>

C10_LogIsAppendOnly == [][LogOnlyGrows]_vars /\ []HeaderOnceAndFirst

\* A restarted process is polling, and the log holds rows of the earlier run
\* followed by rows of this one.
C10_Witness ==
  /\ restarts >= 1
  /\ pc = "timer"
  /\ \E i, j \in DOMAIN logRows :
       /\ 1 < i /\ i < j
       /\ logRows[i].cycle <= runStart
       /\ logRows[j].cycle > runStart

(***************************************************************************)
(* C11: once startup has completed (positions loaded, mode selected), no   *)
(* failure inside a poll cycle, a failing append to the sink included,     *)
(* terminates the process: the process has not exited, and no cycle step   *)
(* makes it exit.                                                          *)
(***************************************************************************)
StartupCompleted == resolution # "none"

C11_CycleFailureNeverFatal == StartupCompleted => pc # "exited" /\ exitCode = 0

(***************************************************************************)
(* C12: a start without the endpoint configuration or without the roster   *)
(* file ends the process with a non-zero exit status; that step fetches    *)
(* no position, writes nothing to the log (no header either) and runs no   *)
(* poll cycle, and nothing happens after it.                               *)
(***************************************************************************)
ConfigMissing == ~rpcUrlSet \/ ~roster.exists

StartWithoutConfig == pc = "stopped" /\ ConfigMissing

C12_MissingConfigExitsBeforeAnything ==
  /\ [][StartWithoutConfig =>
         /\ pc' = "exited"
         /\ exitCode' # 0
         /\ UNCHANGED <<logFile, memory, loaded, cycles, outcome, inflight,
                        poolAddress, resolution>>]_vars
  /\ [][pc = "exited" => UNCHANGED vars]_vars
  /\ [](ConfigMissing /\ pc = "exited" =>
         /\ exitCode # 0
         /\ loaded = 0 /\ positionsByAddress = EmptyMap
         /\ inflight = {})

\* The process has exited for want of its roster file or of its endpoint,
\* leaving the rows of an earlier run in the log.
C12_Witness ==
  /\ pc = "exited" /\ exitCode = 1
  /\ ConfigMissing
  /\ Len(logRows) > 1

(***************************************************************************)
(* C13: a fetch in which a data-source call fails (balance, token-id or    *)
(* position read) gives its address the empty position list and changes    *)
(* the list of no other address; loading goes on with the next roster      *)
(* entry and the process does not exit; once the mode is chosen every      *)
(* roster entry has been fetched, the addresses whose fetch failed hold    *)
(* the empty list and the others hold exactly their matching positions.    *)
(***************************************************************************)
FetchStep == loaded' = loaded + 1

FetchKeepsOthers ==
  FetchStep =>
    LET addr == addresses[loaded + 1]
    IN /\ ~fetchOk'[addr] => positionsByAddress'[addr] = <<>>
       /\ \A b \in DOMAIN positionsByAddress \ {addr} :
            /\ positionsByAddress'[b] = positionsByAddress[b]
            /\ fetchOk'[b] = fetchOk[b]
       /\ pc' = "load"
       /\ exitCode' = 0

AllLoadedDespiteFailures ==
  /\ pc = "exited" => ConfigMissing
  /\ ModeChosen =>
       /\ loaded = Len(addresses)
       /\ DOMAIN positionsByAddress = Tracked
       /\ \A a \in Tracked :
            positionsByAddress[a] =
              IF fetchOk[a] THEN FilterPositions(chain[a]) ELSE <<>>

C13_FetchFailureYieldsEmptyList ==
  [][FetchKeepsOthers]_vars /\ []AllLoadedDespiteFailures

\* One address's fetch failed though it holds matching positions, another
\* address kept its own, the pool was resolved and a cycle has written the
\* rows of both.
C13_Witness ==
  /\ pc = "timer"
  /\ poolAddress = POOL_ADDRESS
  /\ \E a, b \in Tracked :
       /\ ~fetchOk[a] /\ FilterPositions(chain[a]) # <<>>
       /\ positionsByAddress[a] = <<>>
       /\ fetchOk[b] /\ positionsByAddress[b] # <<>>
  /\ \E id \in runStart + 1 .. cycles : Len(RowsOfCycle(id)) = Len(addresses)

(***************************************************************************)
(* C14: the list a successful fetch caches holds exactly the positions of  *)
(* the raw list whose token pair is the configured pair in either order,   *)
(* letter case ignored, and whose fee is the configured fee, in the order  *)
(* of the raw list; filtering the cached list again returns it unchanged.  *)
(***************************************************************************)
ConfiguredPair == {ToLowerCase(USDC_ADDRESS), ToLowerCase(OTHER_TOKEN)}

Keeps(p) ==
  /\ {ToLowerCase(p.token0), ToLowerCase(p.token1)} = ConfiguredPair
  /\ p.fee = FEE

\* out is the subsequence of raw at the indices I, in increasing order.
IsSubSeqAt(out, raw, I) ==
  /\ Len(out) = Cardinality(I)
  /\ \A i \in I : out[Cardinality({j \in I : j <= i})] = raw[i]

C14_FilterKeepsMatchingInOrder ==
  \A a \in DOMAIN positionsByAddress :
    fetchOk[a] =>
      LET raw == chain[a]
          kept == positionsByAddress[a]
      IN /\ IsSubSeqAt(kept, raw, {i \in DOMAIN raw : Keeps(raw[i])})
         /\ FilterPositions(kept) = kept

\* The cached list is a reversed-order position followed by a direct one,
\* spelled in another case than the configuration, out of a raw list that
\* had a position of another fee tier between them.
C14_Witness ==
  /\ "a1" \in DOMAIN positionsByAddress
  /\ chain["a1"] = <<RawReversed, RawWrongFee, RawDirect>>
  /\ positionsByAddress["a1"] = <<RawReversed, RawDirect>>

(***************************************************************************)
(* C15: every cycle of the run that was not skipped has pushed exactly one *)
(* value into the window of every tracked address, whatever the roster:    *)
(* after c such cycles every window has received c values and holds        *)
(* min(c, 72) of them.                                                     *)
(***************************************************************************)
CompletedCycles ==
  Cardinality({id \in runStart + 1 .. cycles : outcome[id] = "done"})

C15_OnePushPerAddressPerCycle ==
  \A a \in DOMAIN rollingData :
    /\ Len(pushed[a]) = CompletedCycles
    /\ Len(rollingData[a]) = Min(CompletedCycles, WINDOW_SIZE)

(***************************************************************************)
(* C16: in every record of the latest completed active-mode cycle, with    *)
(* or without liquidity in the pool, the activeLiquidity field is the sum  *)
(* of liquidity over the cached positions of the record's address that     *)
(* are in range at the tick the cycle sampled.                             *)
(***************************************************************************)
C16_RecordCarriesInRangeLiquidity ==
  lastCycle.id # 0 =>
    LET rows == RowsOfCycle(lastCycle.id)
    IN \A j \in DOMAIN rows :
         rows[j].activeLiquidity =
           InRangeLiquidity(positionsByAddress[rows[j].address],
                            lastCycle.currentTick)

(***************************************************************************)
(* C17: the mode never changes during a run.  Pool resolution is made at   *)
(* most once, at startup: once made, no step of the run changes its        *)
(* result or goes back to loading.  The rows of one run either all carry   *)
(* the N/A tick or all carry a numeric tick, according to the run's mode.  *)
(***************************************************************************)
SameRun == pc' \notin {"stopped", "exited"}

ModeFixed ==
  (resolution # "none" /\ SameRun) =>
    /\ poolAddress' = poolAddress
    /\ resolution' = resolution
    /\ pc' # "load"

RowsOfRun == SelectSeq(logRows, LAMBDA r : IsRow(r) /\ r.cycle > runStart)

OneModePerRun ==
  LET rows == RowsOfRun
  IN /\ \A i, j \in DOMAIN rows :
          (rows[i].currentTick = NA) <=> (rows[j].currentTick = NA)
     /\ ModeChosen =>
          \A i \in DOMAIN rows : (rows[i].currentTick = NA) <=> Degraded

C17_ModeFixedForRun == [][ModeFixed]_vars /\ []OneModePerRun

\* The second run of the process is degraded and has written rows, after a
\* first run that was active and wrote rows with a numeric tick.
C17_Witness ==
  /\ restarts > 0
  /\ ModeChosen /\ Degraded
  /\ RowsOfRun # <<>>
  /\ \E i \in DOMAIN logRows :
       IsRow(logRows[i]) /\ logRows[i].cycle <= runStart
                         /\ logRows[i].currentTick # NA

(***************************************************************************)
(* C18: every roster entry's position list is fetched exactly once, entry  *)
(* by entry, before pool resolution and before the first cycle of the run; *)
(* once the mode is chosen every entry has been fetched and no step of     *)
(* the run, in either mode, changes the cached lists.                      *)
(***************************************************************************)
FetchesBeforeResolution ==
  FetchStep =>
    /\ pc = "load" /\ resolution = "none"
    /\ cycles = runStart /\ inflight = {}
    /\ loaded < Len(addresses)
    /\ DOMAIN positionsByAddress' =
         DOMAIN positionsByAddress \cup {addresses[loaded + 1]}

CacheFixedAfterStartup ==
  (ModeChosen /\ SameRun) =>
    /\ positionsByAddress' = positionsByAddress
    /\ loaded' = loaded
    /\ addresses' = addresses

FetchedOnce ==
  /\ loaded <= Len(addresses)
  /\ ModeChosen => loaded = Len(addresses)
  /\ cycles > runStart /\ pc \notin {"stopped", "exited"} => ModeChosen

C18_PositionsFetchedOnceThenFixed ==
  /\ [][FetchesBeforeResolution]_vars
  /\ [][CacheFixedAfterStartup]_vars
  /\ []FetchedOnce

\* Two cycles of an active run have completed; the cache still lacks the
\* positions of an address whose fetch failed at startup.
C18_Witness ==
  /\ pc = "timer" /\ ~Degraded
  /\ CompletedCycles >= 2
  /\ \E a \in Tracked :
       ~fetchOk[a] /\ positionsByAddress[a] = <<>>
                   /\ FilterPositions(chain[a]) # <<>>

(***************************************************************************)
(* C19: the window updates and the records of one cycle are made in one    *)
(* step, after the cycle's last pool read.  Whatever cycles are in flight, *)
(* a step that appends records appends those of one cycle only, one per    *)
(* roster entry, all with one timestamp, and leaves in each window it      *)
(* pushed into the values whose mean is the rolling average of the last    *)
(* record it wrote for that address; windows change in no other step of a  *)
(* run; in the log the rows of a cycle are contiguous and share their      *)
(* timestamp.                                                              *)
(***************************************************************************)
NewRows == SubSeq(logRows', Len(logRows) + 1, Len(logRows'))

LastRowOf(rows, a) ==
  rows[CHOOSE i \in DOMAIN rows :
         /\ rows[i].address = a
         /\ \A j \in DOMAIN rows : rows[j].address = a => j <= i]

CycleWritesInOneStep ==
  /\ (pc # "stopped" /\ logRows' # logRows) =>
       /\ IsPrefix(logRows, logRows')
       /\ Len(NewRows) = Len(addresses)
       /\ \A i, j \in DOMAIN NewRows :
            /\ IsRow(NewRows[i])
            /\ NewRows[i].cycle = NewRows[j].cycle
            /\ NewRows[i].timestamp = NewRows[j].timestamp
       /\ \A a \in Tracked :
            LastRowOf(NewRows, a).rolling72minAvg =
              ToFixed(MeanOf(rollingData'[a]), 2)
  /\ (ModeChosen /\ SameRun /\ rollingData' # rollingData) =>
       logRows' # logRows

\* Two rows of one cycle have one timestamp, and the row after the earlier
\* of them is of that cycle too: no row of another cycle lies between them.
RowsOfCycleContiguous ==
  \A i, j \in DOMAIN logRows :
    (i < j /\ IsRow(logRows[i]) /\ IsRow(logRows[j])
           /\ logRows[i].cycle = logRows[j].cycle) =>
      /\ logRows[i].timestamp = logRows[j].timestamp
      /\ IsRow(logRows[i + 1])
      /\ logRows[i + 1].cycle = logRows[i].cycle

C19_CycleRecordsInOneStep ==
  [][CycleWritesInOneStep]_vars /\ []RowsOfCycleContiguous

\* Two cycles of an active run were in flight together and the later one
\* finished first: its two rows precede the two rows of the earlier one.
C19_Witness ==
  \E i, j \in DOMAIN logRows :
    /\ i < j
    /\ IsRow(logRows[i]) /\ IsRow(logRows[j])
    /\ logRows[i].cycle > logRows[j].cycle
    /\ logRows[j].cycle > runStart
    /\ logRows[i].currentTick # NA
    /\ Len(RowsOfCycle(logRows[i].cycle)) = 2
    /\ Len(RowsOfCycle(logRows[j].cycle)) = 2

(***************************************************************************)
(* C20: while a run is in degraded mode every value of every window is 0,  *)
(* and every record the run has written carries the rolling average 0.00.  *)
(***************************************************************************)
C20_DegradedWindowsAllZero ==
  Degraded =>
    /\ \A a \in DOMAIN rollingData :
         \A k \in DOMAIN rollingData[a] : rollingData[a][k] = Zero
    /\ \A i \in DOMAIN RowsOfRun : RowsOfRun[i].rolling72minAvg = 0

\* A degraded run that tracks positions (the pool lookup threw or found no
\* pool) has polled twice, after an earlier active run that logged a
\* percentage above 0.
C20_Witness ==
  /\ Degraded /\ resolution \in {"threw", "zero"}
  /\ \E a \in DOMAIN rollingData : Len(rollingData[a]) >= 2
  /\ \E i \in DOMAIN logRows :
       /\ IsRow(logRows[i])
       /\ logRows[i].cycle <= runStart
       /\ logRows[i].percentageOfDepth > 0

=============================================================================
